---- MODULE Spec2Model ----
(***************************************************************************)
(* A model of mrm's core (src/src/index.js): task discovery (getAllTasks), *)
(* the runner (run, runAlias, runTask), the config accessor                *)
(* (getConfigGetter) and the config builder (getConfig), together with the *)
(* lookup helpers they share (tryFile, tryResolve, firstResult).           *)
(*                                                                         *)
(* JavaScript objects are functions whose DOMAIN is the set of own keys;   *)
(* reading a key that is not there yields Undefined, as obj[key] does.     *)
(***************************************************************************)
EXTENDS Naturals, Sequences, FiniteSets

\* ------------------------------------------------------------------ bounds
\* Accessor calls one task invocation makes.
MaxTaskOps == 1
\* Accessor calls made on an accessor obtained directly from getConfigGetter.
MaxAccOps == 2
\* Length of the array of names handed to run.
MaxNames == 2

\* ------------------------------------------------------- JavaScript values
\* A string is the sequence of its pieces: `${taskName}/index.js` is
\* taskName \o <<"/index.js">>, "config:a" is <<"config:", "a">>, "" is <<>>.
\* undefined, the value of a missing key and of a failed lookup, is a piece
\* of its own.
Undefined == <<"<undefined>">>

\* Truthiness of a string or undefined.
Truthy(v) == v # Undefined /\ v # <<>>

\* Object.assign({}, a, b): own keys of both, b's value where both have one.
Assign(a, b) ==
  [k \in (DOMAIN a) \cup (DOMAIN b) |-> IF k \in DOMAIN b THEN b[k] ELSE a[k]]

\* obj[key] for an object of strings
Lookup(obj, key) == IF key \in DOMAIN obj THEN obj[key] ELSE Undefined

\* The empty object {}.
EmptyObj == [k \in {} |-> Undefined]

\* All objects with keys among K and values among V.
Objects(K, V) == UNION {[S -> V] : S \in SUBSET K}

\* All sequences over S of length lo..hi.
SeqsOf(S, lo, hi) == UNION {[1..n -> S] : n \in lo..hi}

\* ------------------------------------------------------------- environment
\* The search directories handed to every call, in list order.
Directories == << <<"d1">>, <<"d2">> >>

\* path.resolve(dir, filename), for a relative filename
PathResolve(dir, filename) == dir \o <<"/">> \o filename

\* path.dirname(p) and path.basename(p)
Dirname(p) == SubSeq(p, 1, Len(p) - 1)
Basename(p) == <<p[Len(p)]>>

VARIABLES
  \* ---- the world outside the program
  files,      \* task modules on disk: path |-> the description the module exports
  packages,   \* the package names requireg can resolve
  cfgFiles,   \* config files on disk: path |-> the object the file exports
  \* ---- getConfig
  argv,       \* the parsed command line handed to getConfig
  cfgResult,  \* what the last getConfig call returned
  cfgDone,    \* whether getConfig has been called
  \* ---- the caller of run / getAllTasks / getConfigGetter
  options,    \* the caller's options object: hasAliases, aliases, conf
  listed,     \* what the last getAllTasks call returned
  \* ---- the call in progress
  call,       \* the top-level call: the function and its name argument(s)
  status,     \* idle | running | intask | accessor | done | failed
  todo,       \* the calls still to make, innermost first: <<function, name>>
  cur,        \* the task module being executed: its name and resolved path
  log,        \* what the call has done so far, in order
  err,        \* the error the call ended with
  \* ---- the accessor in use
  acc,        \* the `options` variable closed over by the accessor
  accId,      \* which accessor it is (accessors built during this call)
  nops,       \* calls made on it
  last        \* the last call made on it, and what it returned

cfgVars == <<argv, cfgResult, cfgDone>>
envVars == <<files, packages, cfgFiles>>
callVars == <<call, status, todo, cur, log, err>>
accVars == <<acc, accId, nops, last>>
runVars == <<options, listed, callVars, accVars>>
vars == <<envVars, cfgVars, runVars>>

\* fs.existsSync(filepath)
ExistsSync(filepath) == filepath \in (DOMAIN files) \cup (DOMAIN cfgFiles)

\* ---------------------------------------------------------- firstResult
\* firstResult as it would be if the loop did not stop at the first hit.
lastResult(items, fn) ==
  LET hits == {i \in 1..Len(items) : Truthy(items[i]) /\ Truthy(fn[items[i]])}
      final == CHOOSE i \in hits : \A j \in hits : j <= i
  IN  IF hits = {} THEN Undefined ELSE fn[items[final]]

\* firstResult(items, fn): fn's first truthy result over the truthy items, in
\* list order; undefined when there is none.  fn is a function over the items.
firstResult(items, fn) ==
  LET hits == {i \in 1..Len(items) : Truthy(items[i]) /\ Truthy(fn[items[i]])}
      first == CHOOSE i \in hits : \A j \in hits : i <= j
  IN  IF hits = {} THEN Undefined ELSE fn[items[first]]

Range(s) == {s[i] : i \in 1..Len(s)}

\* tryFile(directories, filename)
tryFile(directories, filename) ==
  firstResult(directories,
              [dir \in Range(directories) |->
                 IF ExistsSync(PathResolve(dir, filename))
                 THEN PathResolve(dir, filename) ELSE Undefined])

\* ------------------------------------------------------------- getConfig
\* key.startsWith('config:') and key.replace(/^config:/, '')
ConfigPrefix == "config:"
StartsWithConfig(key) == Len(key) >= 1 /\ key[1] = ConfigPrefix
StripConfig(key) == IF StartsWithConfig(key) THEN Tail(key) ELSE key

\* getConfigFromFile(directories, filename)
getConfigFromFile(directories, filename) ==
  LET filepath == tryFile(directories, filename)
  IN  IF ~Truthy(filepath) THEN EmptyObj ELSE cfgFiles[filepath]

\* getConfigFromCommandLine(argv): forEach visits each own key once; two keys
\* never strip to the same name, so the visiting order does not show.
getConfigFromCommandLine(av) ==
  LET prefixed == {key \in DOMAIN av : StartsWithConfig(key)}
  IN  [name \in {StripConfig(key) : key \in prefixed} |->
         av[CHOOSE key \in prefixed : StripConfig(key) = name]]

\* getConfig as it would be with the two sources merged the other way round.
getConfigFileWins(directories, filename, av) ==
  Assign(getConfigFromCommandLine(av), getConfigFromFile(directories, filename))

\* getConfig(directories, filename, argv)
getConfig(directories, filename, av) ==
  Assign(getConfigFromFile(directories, filename), getConfigFromCommandLine(av))

\* The inputs of the getConfig specification.
ConfigFilename == <<"config.json">>
ConfigKeys == {<<"a">>, <<"b">>}
FileValues == {<<"f1">>, <<"f2">>}
ArgvKeys == {<<"config:", "a">>, <<"config:", "b">>, <<"b">>,
             <<"x", "config:", "a">>, <<"config:", "config:", "a">>}
ArgvValues == {<<"c1">>, <<"c2">>}
ConfigPaths == {PathResolve(Directories[i], ConfigFilename) : i \in 1..Len(Directories)}

CallGetConfig ==
  /\ ~cfgDone
  /\ cfgResult' = getConfig(Directories, ConfigFilename, argv)
  /\ cfgDone' = TRUE
  /\ UNCHANGED <<argv, envVars, runVars>>

\* ------------------------------------------------------ module resolution
TaskNames == {<<"a">>, <<"b">>}
AliasOnlyNames == {<<"s">>}
Names == TaskNames \cup AliasOnlyNames

\* `${taskName}/index.js` and `mrm-task-${taskName}`
IndexFile(taskName) == taskName \o <<"/index.js">>
PackageName(taskName) == <<"mrm-task-">> \o taskName

\* requireg.resolve(id): an existing absolute file resolves to itself, an
\* installed package to its entry file, anything else to nothing.
RequiregResolve(id) ==
  IF id \in DOMAIN files THEN id
  ELSE IF id \in packages THEN <<"node_modules", "/">> \o id
  ELSE Undefined

\* tryResolve(...names)
tryResolve(names) ==
  firstResult(names, [id \in Range(names) |-> RequiregResolve(id)])

\* The candidates as they would be without the bare task name.
CandidatesWithoutBareName(taskName) ==
  << tryFile(Directories, IndexFile(taskName)), PackageName(taskName) >>

\* The candidates runTask hands to tryResolve, in its order.
Candidates(taskName) ==
  << tryFile(Directories, IndexFile(taskName)), PackageName(taskName), taskName >>

\* runTask's modulePath
ModulePath(taskName) == tryResolve(Candidates(taskName))

\* ------------------------------------------------------------- the aliases
\* A value of the alias object: a list of task names, a string (a task
\* description), or undefined for a missing key.
JsList(l) == [kind |-> "list", list |-> l, text |-> <<>>]
JsText(t) == [kind |-> "text", list |-> <<>>, text |-> t]
JsUndefined == [kind |-> "undefined", list |-> <<>>, text |-> <<>>]

\* Truthiness: every array is truthy, a string unless empty, undefined never.
JsTruthy(v) == v.kind = "list" \/ (v.kind = "text" /\ v.text # <<>>)

EmptyAliases == [k \in {} |-> JsUndefined]

\* allTasks[name]
AliasLookup(obj, name) == IF name \in DOMAIN obj THEN obj[name] ELSE JsUndefined

\* getAllAliases(options): get(options, 'aliases', {})
getAllAliases(opts) == IF opts.hasAliases THEN opts.aliases ELSE EmptyAliases

\* --------------------------------------------------------------- getAllTasks
\* glob.sync(`${dir}/*/index.js`): the task modules right under dir, sorted.
GlobOrder == << <<"a">>, <<"b">> >>
IsUnder(dir, name) == PathResolve(dir, IndexFile(name)) \in DOMAIN files
GlobSync(dir) ==
  LET hit(name) == IsUnder(dir, name)
      found == SelectSeq(GlobOrder, hit)
  IN  [i \in 1..Len(found) |-> PathResolve(dir, IndexFile(found[i]))]

\* module.description || ''
DescriptionOf(filename) ==
  IF Truthy(files[filename]) THEN files[filename] ELSE <<>>

\* One pass of the inner forEach callback: allTasks after seeing filename.
AddTask(allTasks, filename) ==
  LET taskName == Basename(Dirname(filename))
  IN  IF ~JsTruthy(AliasLookup(allTasks, taskName))
      THEN [k \in (DOMAIN allTasks) \cup {taskName} |->
              IF k = taskName THEN JsText(DescriptionOf(filename)) ELSE allTasks[k]]
      ELSE allTasks

RECURSIVE AddTasks(_, _)
AddTasks(allTasks, filenames) ==
  IF filenames = <<>> THEN allTasks
  ELSE AddTasks(AddTask(allTasks, Head(filenames)), Tail(filenames))

RECURSIVE ScanDirectories(_, _)
ScanDirectories(allTasks, directories) ==
  IF directories = <<>> THEN allTasks
  ELSE ScanDirectories(AddTasks(allTasks, GlobSync(Head(directories))),
                       Tail(directories))

\* getAllTasks(directories, options): the object it returns.
getAllTasks(directories, opts) == ScanDirectories(getAllAliases(opts), directories)

\* The caller's options after getAllTasks: allTasks is the object
\* getAllAliases returned, which is options.aliases itself when options has
\* one (and a fresh {} otherwise), so every allTasks[taskName] = ... is a write
\* to options.aliases.
OptionsAfterGetAllTasks(directories, opts) ==
  IF opts.hasAliases
  THEN [opts EXCEPT !.aliases = getAllTasks(directories, opts)]
  ELSE opts

\* ------------------------------------------------------------ the accessor
\* The keys and values tasks and callers use with the accessor.
AccKeys == {<<"x">>, <<"y">>}
OptionValues == {<<"o1">>, Undefined}
DefaultValues == {<<"v1">>, <<"v2">>, Undefined}

\* getConfigGetter(options): the `options` the new accessor closes over
getConfigGetter(opts) == opts.conf

\* defaults as it would be with the arguments of the merge swapped.
defaultsOverride(opts, defaultOptions) == Assign(opts, defaultOptions)

\* defaults(defaultOptions): the accessor's `options` after the call
defaults(opts, defaultOptions) == Assign(defaultOptions, opts)

\* defaults as it would be if it merged into the object it was built over.
BuiltOverMerged(opts, defaultOptions) == Assign(defaultOptions, opts)

\* What defaults leaves in the object the accessor was built over: the merge
\* goes into a fresh {} and only the closure's variable is rebound.
BuiltOverAfterDefaults(opts, defaultOptions) == opts

\* require's filter as it would be if it tested for the key, not the value.
RECURSIVE UnknownByKey(_, _)
UnknownByKey(opts, names) ==
  IF names = <<>> THEN <<>>
  ELSE (IF Head(names) \notin DOMAIN opts THEN <<Head(names)>> ELSE <<>>)
       \o UnknownByKey(opts, Tail(names))

\* names.filter(name => options[name] === undefined)
RECURSIVE Unknown(_, _)
Unknown(opts, names) ==
  IF names = <<>> THEN <<>>
  ELSE (IF Lookup(opts, Head(names)) = Undefined THEN <<Head(names)>> ELSE <<>>)
       \o Unknown(opts, Tail(names))

\* The last call on the accessor: its arguments, the accessor's `options`
\* before it, and the accessor it returned (0: it returned none).
NoCall ==
  [op |-> "none", defaults |-> EmptyObj, names |-> <<>>, before |-> EmptyObj, ret |-> 0]

\* ------------------------------------------------------------- the runner
NoError == [type |-> "none", names |-> <<>>]
MrmUnknownTask(taskName) == [type |-> "MrmUnknownTask", names |-> <<taskName>>]
MrmUnknownAlias == [type |-> "MrmUnknownAlias", names |-> <<>>]
MrmUndefinedOption(unknown) == [type |-> "MrmUndefinedOption", names |-> unknown]
\* tasks.forEach is not a function
TypeError == [type |-> "TypeError", names |-> <<>>]
\* whatever a task module throws
TaskFailure == [type |-> "TaskFailure", names |-> <<>>]

NoTask == [name |-> <<>>, module |-> Undefined]
Event(ev, name, module) == [ev |-> ev, name |-> name, module |-> module]

\* Where run sends a single name.
Dispatch(opts, name) ==
  IF JsTruthy(AliasLookup(getAllAliases(opts), name)) THEN "runAlias" ELSE "runTask"

\* name.forEach(n => run(n, ...)): the calls it makes, in order
RunFrames(names) == [i \in 1..Len(names) |-> <<"run", names[i]>>]

\* runAlias's loop as it would be if it walked the list backwards.
AliasFramesBackwards(tasks) ==
  [i \in 1..Len(tasks) |-> <<"runTask", tasks[Len(tasks) + 1 - i]>>]

\* tasks.forEach(name => runTask(name, ...)): the calls it makes, in order
AliasFrames(tasks) == [i \in 1..Len(tasks) |-> <<"runTask", tasks[i]>>]

\* What is left to do once a throw reaches a forEach: nothing catches it.
AfterThrow(frames) == <<>>

Throw(e) ==
  /\ err' = e
  /\ status' = "failed"
  /\ todo' = AfterThrow(todo)

StatusFor(frames) == IF frames = <<>> THEN "done" ELSE "running"

CanCall == status \in {"idle", "done", "failed"}

\* A top-level call starts from a clean slate.
Begin(fn, names) ==
  /\ CanCall
  /\ call' = [fn |-> fn, names |-> names]
  /\ log' = <<>>
  /\ err' = NoError
  /\ cur' = NoTask
  /\ acc' = EmptyObj
  /\ accId' = 0
  /\ nops' = 0
  /\ last' = NoCall

\* run(name, ...) with a single name
CallRun ==
  \E name \in Names :
    /\ Begin("run", <<name>>)
    /\ todo' = << <<"run", name>> >>
    /\ status' = "running"
    /\ UNCHANGED <<envVars, cfgVars, options, listed>>

\* run(names, ...) with an array: the arrays of distinct names
NameArrays ==
  {names \in SeqsOf(Names, 0, MaxNames) :
     \A i, j \in 1..Len(names) : names[i] = names[j] => i = j}

CallRunArray ==
  \E names \in NameArrays :
    /\ Begin("run[]", names)
    /\ todo' = RunFrames(names)
    /\ status' = StatusFor(todo')
    /\ UNCHANGED <<envVars, cfgVars, options, listed>>

\* runAlias(aliasName, ...) called directly
CallRunAlias ==
  \E name \in Names :
    /\ Begin("runAlias", <<name>>)
    /\ todo' = << <<"runAlias", name>> >>
    /\ status' = "running"
    /\ UNCHANGED <<envVars, cfgVars, options, listed>>

\* runTask(taskName, ...) called directly
CallRunTask ==
  \E name \in Names :
    /\ Begin("runTask", <<name>>)
    /\ todo' = << <<"runTask", name>> >>
    /\ status' = "running"
    /\ UNCHANGED <<envVars, cfgVars, options, listed>>

\* getAllTasks(directories, options)
CallGetAllTasks ==
  /\ Begin("getAllTasks", <<>>)
  /\ listed' = [done |-> TRUE,
                before |-> getAllAliases(options),
                result |-> getAllTasks(Directories, options)]
  /\ options' = OptionsAfterGetAllTasks(Directories, options)
  /\ todo' = <<>>
  /\ status' = "done"
  /\ UNCHANGED <<envVars, cfgVars>>

\* run: the body for one name
Run ==
  /\ status = "running" /\ todo # <<>> /\ Head(todo)[1] = "run"
  /\ LET name == Head(todo)[2]
         target == Dispatch(options, name)
     IN  /\ log' = Append(log, Event("run", name, <<target>>))
         /\ todo' = << <<target, name>> >> \o Tail(todo)
  /\ UNCHANGED <<envVars, cfgVars, options, listed, call, status, cur, err, accVars>>

\* runAlias: up to and including the forEach's first call
RunAlias ==
  /\ status = "running" /\ todo # <<>> /\ Head(todo)[1] = "runAlias"
  /\ LET aliasName == Head(todo)[2]
         tasks == AliasLookup(getAllAliases(options), aliasName)
     IN  IF ~JsTruthy(tasks)
         THEN /\ Throw(MrmUnknownAlias)
              /\ UNCHANGED log
         ELSE /\ log' = Append(log, Event("Running alias", aliasName, Undefined))
              /\ IF tasks.kind = "list"
                 THEN /\ todo' = AliasFrames(tasks.list) \o Tail(todo)
                      /\ status' = StatusFor(todo')
                      /\ UNCHANGED err
                 ELSE Throw(TypeError)
  /\ UNCHANGED <<envVars, cfgVars, options, listed, call, cur, accVars>>

\* runTask: up to the call of the module
RunTask ==
  /\ status = "running" /\ todo # <<>> /\ Head(todo)[1] = "runTask"
  /\ LET taskName == Head(todo)[2]
         modulePath == ModulePath(taskName)
     IN  IF ~Truthy(modulePath)
         THEN /\ Throw(MrmUnknownTask(taskName))
              /\ UNCHANGED <<log, cur, accVars>>
         ELSE /\ log' = log \o << Event("Running", taskName, Undefined),
                                  Event("invoke", taskName, modulePath) >>
              /\ cur' = [name |-> taskName, module |-> modulePath]
              /\ acc' = getConfigGetter(options)
              /\ accId' = accId + 1
              /\ nops' = 0
              /\ UNCHANGED last
              /\ todo' = Tail(todo)
              /\ status' = "intask"
              /\ UNCHANGED err
  /\ UNCHANGED <<envVars, cfgVars, options, listed, call>>

\* The task module returns.
TaskReturn ==
  /\ status = "intask"
  /\ log' = Append(log, Event("return", cur.name, cur.module))
  /\ status' = StatusFor(todo)
  /\ cur' = NoTask
  /\ acc' = EmptyObj
  /\ nops' = 0
  /\ UNCHANGED <<envVars, cfgVars, options, listed, call, todo, err, accId, last>>

\* The task module throws.
TaskThrow ==
  /\ status = "intask"
  /\ Throw(TaskFailure)
  /\ UNCHANGED <<envVars, cfgVars, options, listed, call, cur, log, accVars>>

\* The accessor is in use: by the running task, or by whoever built it.
InUse == status \in {"intask", "accessor"}
MayCall == InUse /\ nops < (IF status = "intask" THEN MaxTaskOps ELSE MaxAccOps)

\* What a task passes; a direct user of the accessor passes anything.
TaskDefaults == [{<<"y">>} -> {<<"v1">>}] \cup [AccKeys -> {<<"v2">>}]
TaskRequires == {<< <<"x">> >>, << <<"x">>, <<"y">> >>}
DefaultsArgs ==
  IF status = "intask" THEN TaskDefaults ELSE Objects(AccKeys, DefaultValues)
RequireArgs ==
  IF status = "intask" THEN TaskRequires ELSE SeqsOf(AccKeys, 0, 2)

\* config.defaults(defaultOptions)
Defaults ==
  /\ MayCall
  /\ \E d \in DefaultsArgs :
       /\ acc' = defaults(acc, d)
       /\ options' = [options EXCEPT !.conf = BuiltOverAfterDefaults(options.conf, d)]
       /\ last' = [op |-> "defaults", defaults |-> d, names |-> <<>>,
                   before |-> acc, ret |-> accId]
  /\ nops' = nops + 1
  /\ UNCHANGED <<envVars, cfgVars, listed, callVars, accId>>

\* config.require(...names)
Require ==
  /\ MayCall
  /\ \E names \in RequireArgs :
       LET unknown == Unknown(acc, names)
       IN  IF Len(unknown) > 0
           THEN /\ Throw(MrmUndefinedOption(unknown))
                /\ last' = [op |-> "require", defaults |-> EmptyObj, names |-> names,
                            before |-> acc, ret |-> 0]
           ELSE /\ UNCHANGED <<status, todo, err>>
                /\ last' = [op |-> "require", defaults |-> EmptyObj, names |-> names,
                            before |-> acc, ret |-> accId]
  /\ nops' = nops + 1
  /\ UNCHANGED <<envVars, cfgVars, options, listed, call, cur, log, acc, accId>>

\* config.values()
Values ==
  /\ MayCall
  /\ last' = [op |-> "values", defaults |-> EmptyObj, names |-> <<>>,
              before |-> acc, ret |-> 0]
  /\ nops' = nops + 1
  /\ UNCHANGED <<envVars, cfgVars, options, listed, callVars, acc, accId>>

\* ------------------------------------------------------------ the inputs
EmptyFiles == [p \in {} |-> EmptyObj]

\* A task module may sit in either directory, with or without a description;
\* a described module says which directory it is in.
TaskPath(dir, name) == PathResolve(dir, IndexFile(name))
DescribedIn(dir) == <<"task in ">> \o dir
DirOf(p) == <<p[1]>>
TaskPaths == {TaskPath(Directories[i], name) : i \in 1..Len(Directories), name \in TaskNames}
FileSystems ==
  {f \in UNION {[S -> {Undefined} \cup {DescribedIn(Directories[i]) : i \in 1..Len(Directories)}]
                  : S \in SUBSET TaskPaths} :
     \A p \in DOMAIN f : f[p] \in {Undefined, DescribedIn(DirOf(p))}}
\* The same without descriptions.
PlainFileSystems == UNION {[S -> {Undefined}] : S \in SUBSET TaskPaths}
\* The runner's: task b is either missing or in the first directory.
RunnerFileSystems ==
  {f \in FileSystems :
     /\ TaskPath(Directories[2], <<"b">>) \notin DOMAIN f
     /\ TaskPath(Directories[1], <<"b">>) \in DOMAIN f
          => f[TaskPath(Directories[1], <<"b">>)] = Undefined}
PackageNames == {PackageName(name) : name \in TaskNames} \cup TaskNames

\* options.aliases: missing, or lists of task names under alias names, one of
\* which may also be the name of a task.
AliasObjects ==
  { EmptyAliases,
    [k \in {<<"s">>} |-> JsList(<< >>)],
    [k \in {<<"s">>} |-> JsList(<< <<"a">>, <<"b">> >>)],
    [k \in {<<"s">>} |-> JsList(<< <<"b">>, <<"a">> >>)],
    [k \in {<<"a">>} |-> JsList(<< <<"b">> >>)] }
OptionsWith(aliases, conf) == [hasAliases |-> TRUE, aliases |-> aliases, conf |-> conf]
OptionsWithout(conf) == [hasAliases |-> FALSE, aliases |-> EmptyAliases, conf |-> conf]

NotListed == [done |-> FALSE, before |-> EmptyAliases, result |-> EmptyAliases]

InitIdle ==
  /\ call = [fn |-> "none", names |-> <<>>]
  /\ todo = <<>>
  /\ cur = NoTask
  /\ log = <<>>
  /\ err = NoError
  /\ nops = 0
  /\ last = NoCall
  /\ listed = NotListed

InitNoConfig ==
  /\ cfgFiles = EmptyFiles
  /\ argv = EmptyObj
  /\ cfgResult = EmptyObj
  /\ cfgDone = FALSE

\* The runner and the discovery, over every file system and alias object.
Init ==
  /\ files \in RunnerFileSystems
  /\ packages \in {{}, {PackageName(<<"a">>)}}
  /\ \E conf \in {[k \in {<<"x">>} |-> <<"o1">>]} :
       options \in {OptionsWith(a, conf) : a \in AliasObjects} \cup {OptionsWithout(conf)}
  /\ InitNoConfig
  /\ InitIdle
  /\ status = "idle"
  /\ acc = EmptyObj
  /\ accId = 0

Next ==
  \/ CallRun
  \/ CallRunArray
  \/ CallRunAlias
  \/ CallRunTask
  \/ CallGetAllTasks
  \/ Run
  \/ RunAlias
  \/ RunTask
  \/ TaskReturn
  \/ TaskThrow
  \/ Defaults
  \/ Require
  \/ Values

Spec == Init /\ [][Next]_vars

\* runTask on its own, over every file system and set of installed packages.
InitRunTask ==
  /\ files \in PlainFileSystems
  /\ packages \in SUBSET PackageNames
  /\ options = OptionsWithout(EmptyObj)
  /\ InitNoConfig
  /\ InitIdle
  /\ status = "idle"
  /\ acc = EmptyObj
  /\ accId = 0

NextRunTask ==
  \/ CallRunTask
  \/ RunTask
  \/ TaskReturn
  \/ TaskThrow

SpecRunTask == InitRunTask /\ [][NextRunTask]_vars

\* The accessor on its own: the state after getConfigGetter(options).
InitAccessor ==
  /\ files = EmptyFiles
  /\ packages = {}
  /\ \E conf \in Objects(AccKeys, OptionValues) : options = OptionsWithout(conf)
  /\ InitNoConfig
  /\ InitIdle
  /\ status = "accessor"
  /\ acc = getConfigGetter(options)
  /\ accId = 1

NextAccessor ==
  \/ Defaults
  \/ Require
  \/ Values

SpecAccessor == InitAccessor /\ [][NextAccessor]_vars

\* getConfig on its own, over every pair of config files and command line.
InitConfig ==
  /\ files = EmptyFiles
  /\ packages = {}
  /\ cfgFiles \in UNION {[S -> Objects(ConfigKeys, FileValues)] : S \in SUBSET ConfigPaths}
  /\ argv \in Objects(ArgvKeys, ArgvValues)
  /\ cfgResult = EmptyObj
  /\ cfgDone = FALSE
  /\ options = OptionsWithout(EmptyObj)
  /\ InitIdle
  /\ status = "idle"
  /\ acc = EmptyObj
  /\ accId = 0

NextConfig == CallGetConfig

SpecConfig == InitConfig /\ [][NextConfig]_vars

\* ------------------------------------------------------------ properties
IsPrefix(s, t) == Len(s) <= Len(t) /\ SubSeq(t, 1, Len(s)) = s

\* C4: getConfig returns the entries of the config file of the first search
\* directory holding it (none when no directory does), with one entry per
\* argv key that starts with config: (prefix stripped, value verbatim) on
\* top; argv keys without the prefix add nothing; the command line wins.
C4_GetConfigMerge ==
  cfgDone =>
    LET holders == {i \in 1..Len(Directories) :
                      PathResolve(Directories[i], ConfigFilename) \in DOMAIN cfgFiles}
        first == CHOOSE i \in holders : \A j \in holders : i <= j
        file == IF holders = {} THEN EmptyObj
                ELSE cfgFiles[PathResolve(Directories[first], ConfigFilename)]
        overrides == {key \in DOMAIN argv : key[1] = "config:"}
    IN  /\ \A key \in overrides :
             /\ Tail(key) \in DOMAIN cfgResult
             /\ cfgResult[Tail(key)] = argv[key]
        /\ \A k \in DOMAIN file :
             /\ k \in DOMAIN cfgResult
             /\ (\A key \in overrides : Tail(key) # k) => cfgResult[k] = file[k]
        /\ \A k \in DOMAIN cfgResult :
             k \in DOMAIN file \/ \E key \in overrides : Tail(key) = k

\* C4's case: both directories hold the file, and the command line overrides
\* one of the first file's keys and leaves another alone.
C4_Witness ==
  /\ cfgDone
  /\ DOMAIN cfgFiles = ConfigPaths
  /\ DOMAIN cfgFiles[PathResolve(Directories[1], ConfigFilename)] = ConfigKeys
  /\ cfgFiles[PathResolve(Directories[2], ConfigFilename)]
       # cfgFiles[PathResolve(Directories[1], ConfigFilename)]
  /\ <<"config:", "b">> \in DOMAIN argv
  /\ <<"b">> \in DOMAIN argv
  /\ <<"config:", "a">> \notin DOMAIN argv
  /\ cfgResult[<<"b">>] = argv[<<"config:", "b">>]
  /\ cfgResult[<<"a">>] = cfgFiles[PathResolve(Directories[1], ConfigFilename)][<<"a">>]

\* C5: a setDefaults call keeps every key the accessor's mapping had, with
\* its value, adds every key of the defaults that was missing, with the
\* default's value, and returns the accessor itself.
C5_DefaultsFillGaps ==
  last.op = "defaults" =>
    /\ \A k \in DOMAIN last.before : k \in DOMAIN acc /\ acc[k] = last.before[k]
    /\ \A k \in (DOMAIN last.defaults) \ (DOMAIN last.before) :
         k \in DOMAIN acc /\ acc[k] = last.defaults[k]
    /\ last.ret = accId

\* C5's case: a second setDefaults names a key the first one filled, with
\* another value, and a key still missing.
C5_Witness ==
  /\ last.op = "defaults"
  /\ nops = 2
  /\ <<"x">> \notin DOMAIN options.conf
  /\ <<"x">> \in DOMAIN last.before
  /\ <<"x">> \in DOMAIN last.defaults
  /\ last.defaults[<<"x">>] # last.before[<<"x">>]
  /\ <<"y">> \in (DOMAIN last.defaults) \ (DOMAIN last.before)

\* The names of a list that the mapping has no key for, in order.
RECURSIVE AbsentIn(_, _)
AbsentIn(obj, names) ==
  IF names = <<>> THEN <<>>
  ELSE (IF Head(names) \notin DOMAIN obj THEN <<Head(names)>> ELSE <<>>)
       \o AbsentIn(obj, Tail(names))

\* The names of a list that the mapping has no key for or holds undefined
\* under, in order.
RECURSIVE UndefinedIn(_, _)
UndefinedIn(obj, names) ==
  IF names = <<>> THEN <<>>
  ELSE (IF Head(names) \notin DOMAIN obj \/ obj[Head(names)] = Undefined
        THEN <<Head(names)>> ELSE <<>>)
       \o UndefinedIn(obj, Tail(names))

\* C6 as claimed: requireKeys fails with UndefinedOption carrying exactly the
\* names that are absent from the accessor's current mapping, in argument
\* order, when there is one; otherwise it raises nothing, leaves the mapping
\* alone and returns the accessor.
C6_RequireAbsent ==
  last.op = "require" =>
    LET absent == AbsentIn(last.before, last.names)
    IN  IF absent # <<>>
        THEN status = "failed" /\ err = MrmUndefinedOption(absent)
        ELSE status # "failed" /\ acc = last.before /\ last.ret = accId

\* C6 amended: requireKeys fails with UndefinedOption carrying exactly the
\* names under which the accessor's current mapping yields undefined (the key
\* is absent, or present with the value undefined), in argument order, when
\* there is one; otherwise it raises nothing, leaves the mapping alone and
\* returns the accessor.
C6_RequireUndefined ==
  last.op = "require" =>
    LET unknown == UndefinedIn(last.before, last.names)
    IN  IF unknown # <<>>
        THEN status = "failed" /\ err = MrmUndefinedOption(unknown) /\ acc = last.before
        ELSE status # "failed" /\ acc = last.before /\ last.ret = accId

\* C6's case: after a setDefaults, requireKeys of a present and a missing key.
C6_Witness ==
  /\ last.op = "require"
  /\ nops = 2
  /\ acc # options.conf
  /\ last.names = << <<"x">>, <<"y">> >>
  /\ <<"x">> \in DOMAIN acc /\ acc[<<"x">>] # Undefined
  /\ status = "failed"
  /\ err.names = << <<"y">> >>

\* The names of the log's events of one kind, in order, and how many of a
\* kind come before a position.
NamesOf(ev) ==
  LET is(e) == e.ev = ev
      sel == SelectSeq(log, is)
  IN  [i \in 1..Len(sel) |-> sel[i].name]
CountBefore(ev, i) == Cardinality({j \in 1..(i - 1) : log[j].ev = ev})

\* Every task module is called only once all the earlier ones have returned.
OneAtATime ==
  \A i \in 1..Len(log) :
    log[i].ev \in {"invoke", "run"} => CountBefore("return", i) = CountBefore("invoke", i)

\* A call that has failed does nothing more.
FailureEndsCall == [][status = "failed" => log' = <<>>]_vars

C1_State ==
  (/\ call.fn = "runAlias"
   /\ AliasLookup(getAllAliases(options), call.names[1]).kind = "list") =>
    LET tasks == AliasLookup(getAllAliases(options), call.names[1]).list
        invoked == NamesOf("invoke")
        returned == NamesOf("return")
    IN  /\ IsPrefix(invoked, tasks)
        /\ IsPrefix(returned, invoked)
        /\ OneAtATime
        /\ status = "done" => returned = tasks
        /\ status = "failed" =>
             \/ /\ err.type = "MrmUnknownTask"
                /\ invoked = returned
                /\ Len(invoked) < Len(tasks)
                /\ err.names = <<tasks[Len(invoked) + 1]>>
             \/ /\ err.type \in {"TaskFailure", "MrmUndefinedOption"}
                /\ Len(invoked) = Len(returned) + 1

\* C1: runAlias for an alias defined as a list calls the task modules in list
\* order, each returning before the next starts; when one fails (it throws,
\* or it is unknown) the call fails with that error and no later task of the
\* list is ever called.
C1_RunAliasInOrder == []C1_State /\ FailureEndsCall

\* C1's case: alias s is [a, b], a was called and threw, b was not called.
C1_Witness ==
  /\ call = [fn |-> "runAlias", names |-> << <<"s">> >>]
  /\ AliasLookup(getAllAliases(options), <<"s">>) = JsList(<< <<"a">>, <<"b">> >>)
  /\ status = "failed"
  /\ err = TaskFailure
  /\ NamesOf("invoke") = << <<"a">> >>
  /\ ModulePath(<<"b">>) # Undefined

C2_State ==
  call.fn \in {"run", "run[]"} =>
    LET processed == NamesOf("run")
    IN  /\ IsPrefix(processed, call.names)
        /\ \A i \in 1..Len(log) :
             log[i].ev = "run" =>
               log[i].module =
                 << IF log[i].name \in DOMAIN getAllAliases(options)
                    THEN "runAlias" ELSE "runTask" >>
        /\ OneAtATime
        /\ status = "done" => processed = call.names
        /\ status = "failed" => err # NoError

\* C2: run with a sequence of names processes them in order; a name that is
\* a key of the alias mapping of options goes to runAlias, any other name to
\* runTask; a failure ends the call with that error and no later name is
\* processed.
C2_RunDispatch == []C2_State /\ FailureEndsCall

\* C3: runTask fails with UnknownTask carrying the task name exactly when no
\* search directory holds taskName/index.js and neither mrm-task-<taskName>
\* nor taskName is an installed package; then no "Running" line is printed
\* and no module is called.
C3_UnknownTask ==
  (call.fn = "runTask" /\ status # "running") =>
    LET taskName == call.names[1]
        nothing ==
          /\ \A i \in 1..Len(Directories) :
               PathResolve(Directories[i], taskName \o <<"/index.js">>) \notin DOMAIN files
          /\ (<<"mrm-task-">> \o taskName) \notin packages
          /\ taskName \notin packages
    IN  /\ (status = "failed" /\ err = MrmUnknownTask(taskName)) <=> nothing
        /\ nothing => log = <<>> /\ cur = NoTask /\ accId = 0

\* C3's case: nothing answers to the name, and the call has failed.
C3_Witness ==
  /\ call = [fn |-> "runTask", names |-> << <<"b">> >>]
  /\ status = "failed"
  /\ err = MrmUnknownTask(<<"b">>)
  /\ <<"b">> \notin packages /\ PackageName(<<"b">>) \notin packages
  /\ <<"a">> \in packages
  /\ TaskPath(Directories[1], <<"a">>) \in DOMAIN files

\* The module runTask is to call for a task name.
ExpectedModule(taskName) ==
  LET holders == {i \in 1..Len(Directories) :
                    PathResolve(Directories[i], taskName \o <<"/index.js">>) \in DOMAIN files}
      first == CHOOSE i \in holders : \A j \in holders : i <= j
  IN  IF holders # {}
      THEN PathResolve(Directories[first], taskName \o <<"/index.js">>)
      ELSE IF (<<"mrm-task-">> \o taskName) \in packages
      THEN <<"node_modules", "/", "mrm-task-">> \o taskName
      ELSE <<"node_modules", "/">> \o taskName

\* C7: the module runTask calls is taskName/index.js of the earliest search
\* directory holding it; failing that the package mrm-task-<taskName>;
\* failing that the package taskName.
C7_ResolutionOrder ==
  \A i \in 1..Len(log) :
    log[i].ev = "invoke" => log[i].module = ExpectedModule(log[i].name)

\* C7's case: only the second directory holds the task, both packages are
\* installed, and the second directory's module is the one called.
C7_Witness ==
  /\ status = "intask"
  /\ cur.name = <<"a">>
  /\ TaskPath(Directories[1], <<"a">>) \notin DOMAIN files
  /\ TaskPath(Directories[2], <<"a">>) \in DOMAIN files
  /\ {<<"a">>, PackageName(<<"a">>)} \subseteq packages
  /\ cur.module = TaskPath(Directories[2], <<"a">>)

\* C7's other case: no directory holds the task, both packages are installed,
\* and the prefixed one is called.
C7_WitnessPackage ==
  /\ status = "intask"
  /\ cur.name = <<"a">>
  /\ \A i \in 1..Len(Directories) : TaskPath(Directories[i], <<"a">>) \notin DOMAIN files
  /\ {<<"a">>, PackageName(<<"a">>)} \subseteq packages
  /\ cur.module = <<"node_modules", "/">> \o PackageName(<<"a">>)

\* The task names found under the search directories.
Discovered ==
  {name \in TaskNames :
     \E i \in 1..Len(Directories) : TaskPath(Directories[i], name) \in DOMAIN files}

C8_State ==
  \A i \in 1..Len(log) :
    (/\ log[i].ev = "run"
     /\ log[i].name \in Discovered
     /\ AliasLookup(getAllAliases(options), log[i].name).kind # "list")
      => log[i].module = <<"runTask">>

\* C8: getAllTasks does not modify options: the alias mapping keeps exactly
\* its keys and lists, and a later run of a discovered task name that is not
\* an alias still goes to runTask.
C8_GetAllTasksKeepsOptions == [][options' = options]_vars /\ []C8_State

\* C9: in what getAllTasks returns, every alias name of options keeps its
\* entry, and every other discovered task name has the description of the
\* module in the earliest search directory holding it ('' when that module
\* declares none).
C9_FirstDirectoryWins ==
  listed.done =>
    /\ \A name \in DOMAIN listed.before :
         name \in DOMAIN listed.result /\ listed.result[name] = listed.before[name]
    /\ \A name \in Discovered \ (DOMAIN listed.before) :
         LET holders == {i \in 1..Len(Directories) :
                           TaskPath(Directories[i], name) \in DOMAIN files}
             first == CHOOSE i \in holders : \A j \in holders : i <= j
             declared == files[TaskPath(Directories[first], name)]
         IN  /\ name \in DOMAIN listed.result
             /\ listed.result[name] =
                  JsText(IF declared = Undefined THEN <<>> ELSE declared)

C10_State ==
  /\ (status = "intask" /\ nops = 0) => acc = options.conf
  /\ (status \in {"intask", "failed"} /\ nops = 1 /\ last.op = "values")
       => last.before = options.conf
  /\ (status \in {"intask", "failed"} /\ nops = 1 /\ last.op = "require")
       => /\ last.before = options.conf
          /\ (last.ret = 0) <=> (UndefinedIn(options.conf, last.names) # <<>>)

\* C10: every task gets an accessor of its own over the caller's options:
\* setDefaults never changes the options handed to run, and the accessor of a
\* later task starts from those options, without the defaults an earlier task
\* set, so values and requireKeys on it answer as for the original options.
C10_AccessorPerTask == []C10_State /\ [][options'.conf = options.conf]_vars

\* C10's case: the first task set a default for y, and the second task's
\* accessor has no y.
C10_Witness ==
  /\ status = "intask"
  /\ accId = 2
  /\ nops = 0
  /\ last.op = "defaults"
  /\ last.ret = 1
  /\ <<"y">> \in DOMAIN last.defaults
  /\ <<"y">> \notin DOMAIN acc

====
